---- MODULE Spec2Model ----
(***************************************************************************)
(* Model of view_imgs.py: the matrix-style HTML gallery builder.           *)
(*                                                                         *)
(* Three specifications share the variables below:                         *)
(*   Spec      main() and build_html(): argument validation, discovery,    *)
(*             the per-file section/grid assembly, and the single write.   *)
(*   SpecList  list_org_files() on a directory of entries.                 *)
(*   SpecB64   encode_data_uri() on a file's bytes.                        *)
(*                                                                         *)
(* A file name is a sequence of one-character strings, so that             *)
(* Path.suffix, str.lower and the code-point order used by sorted() are    *)
(* computed rather than assumed.  A path is a sequence of components.      *)
(***************************************************************************)
EXTENDS Integers, Sequences, FiniteSets, TLC

VARIABLES
    entry,        \* "main" | "build_html" | "list_org_files" | "encode_data_uri"
    pc,           \* position of the run
    orgKind,      \* what --org names: "dir" | "file" | "absent"
    modelKinds,   \* what each --models path names, same index as models
    models,       \* args.models / build_html's models: sequence of paths
    folders,      \* args.folders; <<>> stands for None
    subfolders,   \* build_html's subfolders
    orgEntries,   \* the original directory: name -> "file" | "dir" | "absent"
    fs,           \* model_dir/sub/fname -> kind, as found when the run stats it
    org_files,    \* result of list_org_files
    parts,        \* the document: sequence of sections, each with its grid
    fi, mi, si,   \* loop positions: file, model, subfolder
    html_str,     \* build_html's return value: [set, doc]
    outFile,      \* the file --out names: [exists, doc]
    mkdirs,       \* number of mkdir calls on --out's parent
    writes,       \* number of write_text calls
    printed,      \* number of confirmation lines printed
    io,           \* file-system reads so far: [stats, lists, reads] counters
    exitCode,     \* -1 while running
    fileBytes,    \* SpecB64: bytes of the file encode_data_uri opens
    fileName,     \* SpecB64: name of that file
    uri           \* SpecB64: the data URI returned

vars == <<entry, pc, orgKind, modelKinds, models, folders, subfolders, orgEntries,
          fs, org_files, parts, fi, mi, si, html_str, outFile, mkdirs, writes,
          printed, io, exitCode, fileBytes, fileName, uri>>

(***************************************************************************)
(* Bounds of the model.                                                    *)
(***************************************************************************)
MaxModels  == 2   \* at most this many model directories
MaxFolders == 2   \* at most this many names given with --folders
MaxEntries == 3   \* SpecList: at most this many entries in the directory
MaxMissing == 1   \* at most this many model paths that are not regular files
MaxLen     == 3   \* SpecB64: at most this many bytes in the file

Min(a, b) == IF a < b THEN a ELSE b

(***************************************************************************)
(* Characters: code-point order and str.lower().                           *)
(***************************************************************************)
\* the characters used by the names of the model, in ascending code point
Chars == <<".", "B", "G", "J", "N", "P",
           "a", "b", "c", "d", "e", "f", "g", "i", "j", "m", "n", "p", "t", "w", "x">>

Ord(c) == CHOOSE i \in 1..Len(Chars) : Chars[i] = c

lower_char(c) ==
    CASE c = "B" -> "b"
      [] c = "G" -> "g"
      [] c = "J" -> "j"
      [] c = "N" -> "n"
      [] c = "P" -> "p"
      [] OTHER   -> c

lower(s) == [i \in 1..Len(s) |-> lower_char(s[i])]

\* Python's str comparison: lexicographic by code point, a proper prefix first
RECURSIVE str_lt(_, _)
str_lt(a, b) ==
    IF b = <<>> THEN FALSE
    ELSE IF a = <<>> THEN TRUE
    ELSE IF Head(a) = Head(b) THEN str_lt(Tail(a), Tail(b))
    ELSE Ord(Head(a)) < Ord(Head(b))

(***************************************************************************)
(* Defaults (view_imgs.py lines 29-30).                                    *)
(***************************************************************************)
DEFAULT_SUBFOLDERS == <<"allResult", "est_center_map", "img_bb">>

IMAGE_EXTS == { <<".", "p", "n", "g">>, <<".", "j", "p", "g">>,
                <<".", "j", "p", "e", "g">>, <<".", "b", "m", "p">>,
                <<".", "g", "i", "f">>, <<".", "w", "e", "b", "p">> }

(***************************************************************************)
(* pathlib: PurePath.suffix.                                               *)
(***************************************************************************)
\* str.rfind("."), 1-based; 0 when there is no dot
rfind_dot(name) ==
    LET dots == {i \in 1..Len(name) : name[i] = "."}
    IN  IF dots = {} THEN 0 ELSE CHOOSE i \in dots : \A j \in dots : j <= i

\* suffix: the last dot and what follows, unless the dot is first or last
suffix(name) ==
    LET i == rfind_dot(name)
    IN  IF 1 < i /\ i < Len(name) THEN SubSeq(name, i, Len(name)) ELSE <<>>

(***************************************************************************)
(* list_org_files (lines 52-55).  `listing` is what iterdir() yields: a    *)
(* sequence of [name, kind] in the order the operating system gives.       *)
(***************************************************************************)
RECURSIVE insert_sorted(_, _)
insert_sorted(x, s) ==
    IF s = <<>> THEN <<x>>
    ELSE IF str_lt(x, Head(s)) THEN <<x>> \o s
    ELSE <<Head(s)>> \o insert_sorted(x, Tail(s))

RECURSIVE sorted(_)
sorted(s) ==
    IF s = <<>> THEN <<>> ELSE insert_sorted(Head(s), sorted(Tail(s)))

is_file(e) == e.kind = "file"

RECURSIVE filter_images(_)
filter_images(listing) ==
    IF listing = <<>> THEN <<>>
    ELSE LET p == Head(listing)
         IN  (IF is_file(p) /\ lower(suffix(p.name)) \in IMAGE_EXTS
                 THEN <<p.name>> ELSE <<>>)
             \o filter_images(Tail(listing))

\* list_org_files without the call of sorted()
list_org_files_unsorted(listing) == filter_images(listing)

list_org_files(listing) == sorted(filter_images(listing))

\* every order in which iterdir() can yield the entries of a directory
Present(dir) == {n \in DOMAIN dir : dir[n] # "absent"}

IterOrders(dir) ==
    LET P == Present(dir)
        n == Cardinality(P)
    IN  { [i \in 1..n |-> [name |-> s[i], kind |-> dir[s[i]]]] :
            s \in {t \in [1..n -> P] : \A i, j \in 1..n : i # j => t[i] # t[j]} }

(***************************************************************************)
(* base64.b64encode (RFC 4648, standard alphabet, "=" padding), as called  *)
(* at line 48.  A byte is an integer in 0..255.                            *)
(***************************************************************************)
B64Alphabet ==
    <<"A","B","C","D","E","F","G","H","I","J","K","L","M","N","O","P",
      "Q","R","S","T","U","V","W","X","Y","Z","a","b","c","d","e","f",
      "g","h","i","j","k","l","m","n","o","p","q","r","s","t","u","v",
      "w","x","y","z","0","1","2","3","4","5","6","7","8","9","+","/">>

b64char(v) == B64Alphabet[v + 1]

RECURSIVE b64encode(_)
b64encode(b) ==
    IF b = <<>> THEN <<>>
    ELSE IF Len(b) = 1 THEN
        LET n == b[1] * 16
        IN  <<b64char(n \div 64), b64char(n % 64), "=", "=">>
    ELSE IF Len(b) = 2 THEN
        LET n == (b[1] * 256 + b[2]) * 4
        IN  <<b64char(n \div 4096), b64char((n \div 64) % 64), b64char(n % 64), "=">>
    ELSE
        LET n == b[1] * 65536 + b[2] * 256 + b[3]
        IN  <<b64char(n \div 262144), b64char((n \div 4096) % 64),
              b64char((n \div 64) % 64), b64char(n % 64)>>
            \o b64encode(SubSeq(b, 4, Len(b)))

(***************************************************************************)
(* guess_mime (lines 33-42) and encode_data_uri (lines 45-49).  The URI    *)
(* "data:<mime>;base64,<payload>" is the sequence                          *)
(* <<"data:", mime, ";base64,">> followed by the payload's characters.     *)
(***************************************************************************)
\* mimetypes.guess_type on the name's extension; "" stands for None
mimetypes_guess(name) ==
    LET ext == lower(suffix(name))
    IN  CASE ext \in {<<".", "j", "p", "g">>, <<".", "j", "p", "e", "g">>} -> "image/jpeg"
          [] ext = <<".", "p", "n", "g">>      -> "image/png"
          [] ext = <<".", "g", "i", "f">>      -> "image/gif"
          [] ext = <<".", "b", "m", "p">>      -> "image/bmp"
          [] ext = <<".", "w", "e", "b", "p">> -> "image/webp"
          [] OTHER -> ""

guess_mime(name) ==
    LET mime == mimetypes_guess(name)
        ext  == lower(suffix(name))
    IN  IF mime # "" THEN mime
        ELSE CASE ext \in {<<".", "j", "p", "g">>, <<".", "j", "p", "e", "g">>} -> "image/jpeg"
               [] ext = <<".", "p", "n", "g">>      -> "image/png"
               [] ext = <<".", "g", "i", "f">>      -> "image/gif"
               [] ext = <<".", "b", "m", "p">>      -> "image/bmp"
               [] ext = <<".", "w", "e", "b", "p">> -> "image/webp"
               [] OTHER -> "application/octet-stream"

\* encode_data_uri that encodes all but the last byte read
encode_data_uri_short(name, b) ==
    <<"data:", guess_mime(name), ";base64,">>
        \o b64encode(IF b = <<>> THEN b ELSE SubSeq(b, 1, Len(b) - 1))

encode_data_uri(name, b) ==
    <<"data:", guess_mime(name), ";base64,">> \o b64encode(b)
(***************************************************************************)
(* Paths.                                                                  *)
(***************************************************************************)
path_name(p) == p[Len(p)]          \* Path.name
join(p, comps) == p \o comps       \* p / a / b

exists(kind) == kind # "absent"    \* Path.exists()

\* a validation that asks only whether the path exists
is_dir_exists_only(kind) == kind # "absent"

is_dir(kind) == kind = "dir"       \* Path.is_dir()
can_open(kind) == kind = "file"    \* open(path, "rb") raises on a directory

(***************************************************************************)
(* The cells build_html appends (lines 116-163).  The grid of a section is *)
(* a flat sequence of cells; the style sheet (lines 81-82) lays it out in  *)
(* 1 + len(subfolders) columns, row by row.  An image cell records the     *)
(* path whose bytes its data URI embeds.                                   *)
(***************************************************************************)
NoContent == <<"none">>

hdr(text) == [cls |-> "hdr", label |-> text, content |-> NoContent]

\* header row with the subfolder names in reverse
header_row_reversed(subs) ==
    <<hdr(<<>>)>> \o [i \in 1..Len(subs) |-> hdr(<<subs[Len(subs) + 1 - i]>>)]

\* lines 119-121
header_row(subs) == <<hdr(<<>>)>> \o [i \in 1..Len(subs) |-> hdr(<<subs[i]>>)]

\* lines 125-132
org_cell(org_dir, fname, kind) ==
    IF exists(kind)
    THEN [cls |-> "cell", label |-> <<"org_img">>,
          content |-> <<"img", join(org_dir, <<fname>>), <<"org", fname>>>>]
    ELSE [cls |-> "cell center", label |-> <<>>,
          content |-> <<"missing", "Original MISSING">>]

\* lines 137-144
first_model_cell(m0, label0, sub, fname, kind) ==
    [cls |-> "cell", label |-> <<label0, sub>>,
     content |-> IF exists(kind)
                 THEN <<"img", join(m0, <<sub, fname>>), <<label0, sub, fname>>>>
                 ELSE <<"missing", "MISSING">>]

\* the zero-model branch without its placeholders
no_model_row_empty(subs) == <<>>

\* lines 147-148
no_model_row(subs) ==
    [i \in 1..Len(subs) |->
        [cls |-> "cell center", label |-> <<>>, content |-> <<"missing", "No model">>]]

\* line 152
placeholder_cell == [cls |-> "cell placeholder", label |-> <<>>, content |-> NoContent]

\* lines 154-161
other_model_cell(m, label, sub, fname, kind) ==
    [cls |-> "cell", label |-> <<label, sub>>,
     content |-> IF exists(kind)
                 THEN <<"img", join(m, <<sub, fname>>), <<label, sub, fname>>>>
                 ELSE <<"missing", "MISSING">>]

\* lines 110-116: a new section, its grid still empty
new_section(fname) == [fname |-> fname, grid |-> <<>>, closed |-> FALSE]

append_cells(doc, cells) == [doc EXCEPT ![Len(doc)].grid = @ \o cells]
\* line 62, and the grid-template-columns of lines 81-82
cols(subs) == 1 + Len(subs)

(***************************************************************************)
(* Inputs.                                                                 *)
(***************************************************************************)
Kinds == {"file", "dir", "absent"}

OrgDir == <<"data", "org_img">>

\* model directories in the order given on the command line (not sorted)
ModelPool == <<"mB", "mA", "mD", "mC">>
ModelArgs(k) == [i \in 1..k |-> <<"runs", ModelPool[i]>>]

\* --folders values; <<>> is "not given"
FolderPool == <<"img_bb", "est_center_map", "allResult", "overlay">>
FolderChoices ==
    {<<>>} \cup {SubSeq(FolderPool, 1, n) : n \in 1..Min(MaxFolders, Len(FolderPool))}

\* names of the entries of the original directory
BuildNames == { <<"b", ".", "p", "n", "g">>,
                <<"B", ".", "J", "P", "G">>,
                <<"a", ".", "t", "x", "t">> }

ListNames == BuildNames \cup
             { <<".", "p", "n", "g">>,
               <<"p", "n", "g">>,
               <<"a", ".", "p", "n", "g", ".">>,
               <<"a", ".", "t", ".", "g", "i", "f">>,
               <<"a", ".", "j", "p", "e", "g">>,
               <<"c", ".", "w", "e", "b", "p">>,
               <<"d", ".", "B", "m", "p">> }

Dirs(names) ==
    {d \in [names -> Kinds] : Cardinality(Present(d)) <= MaxEntries}

ByteVals == {0, 77, 251, 255}

RECURSIVE ByteSeqs(_)
ByteSeqs(n) ==
    IF n = 0 THEN {<<>>}
    ELSE LET shorter == ByteSeqs(n - 1)
         IN  shorter \cup {Append(b, v) : b \in {x \in shorter : Len(x) = n - 1},
                                          v \in ByteVals}

NoIo == [stats |-> 0, lists |-> 0, reads |-> 0]

\* the variables of a run that has not started
Fresh ==
    /\ fs = <<>>
    /\ org_files = <<>>
    /\ parts = <<>>
    /\ fi = 0 /\ mi = 0 /\ si = 0
    /\ html_str = [set |-> FALSE, doc |-> <<>>]
    /\ outFile = [exists |-> FALSE, doc |-> <<>>]
    /\ mkdirs = 0 /\ writes = 0 /\ printed = 0
    /\ io = NoIo
    /\ exitCode = -1

(***************************************************************************)
(* Spec: a run of main() (lines 170-190), or a direct call of build_html   *)
(* (lines 58-167) on an existing directory.                                *)
(***************************************************************************)
Init ==
    /\ entry \in {"main", "build_html"}
    /\ models \in {ModelArgs(k) : k \in 0..MaxModels}
    /\ IF entry = "main"
       THEN /\ pc = "parse"
            /\ orgKind \in Kinds
            /\ modelKinds \in [1..Len(models) -> Kinds]
            /\ folders \in FolderChoices
            /\ subfolders = <<>>
       ELSE /\ pc = "list"
            /\ orgKind = "dir"
            /\ modelKinds = [i \in 1..Len(models) |-> "dir"]
            /\ folders = <<>>
            /\ subfolders \in (FolderChoices \ {<<>>}) \cup {DEFAULT_SUBFOLDERS}
    /\ orgEntries \in IF orgKind = "dir" THEN Dirs(BuildNames)
                      ELSE {[n \in BuildNames |-> "absent"]}
    /\ Fresh
    /\ fileBytes = <<>> /\ fileName = <<>> /\ uri = <<>>

inputVars == <<entry, orgKind, modelKinds, models, folders, fileBytes, fileName, uri>>
outVars   == <<html_str, outFile, mkdirs, writes, printed>>
loopVars  == <<fi, mi, si>>

\* lines 171-178: argparse rejects an empty --models list (nargs="+")
ParseArgs ==
    /\ pc = "parse"
    /\ IF models = <<>>
       THEN pc' = "exit" /\ exitCode' = 2
       ELSE pc' = "check_org" /\ exitCode' = exitCode
    /\ UNCHANGED <<inputVars, outVars, loopVars, subfolders, orgEntries, fs,
                   org_files, parts, io>>

\* lines 180-181
CheckOrg ==
    /\ pc = "check_org"
    /\ io' = [io EXCEPT !.stats = @ + 1]
    /\ IF ~is_dir(orgKind)
       THEN pc' = "exit" /\ exitCode' = 1 /\ mi' = mi
       ELSE pc' = "check_models" /\ exitCode' = exitCode /\ mi' = 1
    /\ UNCHANGED <<inputVars, outVars, fi, si, subfolders, orgEntries, fs,
                   org_files, parts>>

\* lines 182-184: one iteration of the loop over args.models
CheckModel ==
    /\ pc = "check_models"
    /\ mi <= Len(models)
    /\ io' = [io EXCEPT !.stats = @ + 1]
    /\ IF ~is_dir(modelKinds[mi])
       THEN pc' = "exit" /\ exitCode' = 1 /\ mi' = mi
       ELSE pc' = pc /\ exitCode' = exitCode /\ mi' = mi + 1
    /\ UNCHANGED <<inputVars, outVars, fi, si, subfolders, orgEntries, fs,
                   org_files, parts>>

\* line 186
ResolveFolders ==
    /\ pc = "check_models"
    /\ mi > Len(models)
    /\ subfolders' = IF folders # <<>> THEN folders ELSE DEFAULT_SUBFOLDERS
    /\ pc' = "list"
    /\ UNCHANGED <<inputVars, outVars, loopVars, orgEntries, fs, org_files,
                   parts, io, exitCode>>

\* lines 60-106: discovery, and the document head
ListOrg ==
    /\ pc = "list"
    /\ \E listing \in IterOrders(orgEntries) :
          org_files' = list_org_files(listing)
    /\ parts' = <<>>
    /\ fi' = 1
    /\ io' = [io EXCEPT !.lists = @ + 1]
    /\ pc' = "section"
    /\ UNCHANGED <<inputVars, outVars, mi, si, subfolders, orgEntries, fs, exitCode>>

\* lines 109-121: open the section of org_files[fi] and append its header row
SectionStart ==
    /\ pc = "section"
    /\ fi <= Len(org_files)
    /\ parts' = append_cells(Append(parts, new_section(org_files[fi])),
                             header_row(subfolders))
    /\ pc' = "org_cell"
    /\ UNCHANGED <<inputVars, outVars, loopVars, subfolders, orgEntries, fs,
                   org_files, io, exitCode>>

\* the file system between discovery and render: a listed original is removed
RemoveOrgFile ==
    /\ pc = "org_cell"
    /\ orgEntries[org_files[fi]] = "file"
    /\ orgEntries' = [orgEntries EXCEPT ![org_files[fi]] = "absent"]
    /\ UNCHANGED <<inputVars, outVars, loopVars, subfolders, fs, org_files,
                   parts, io, exitCode, pc>>

\* OrgCell that gives the original a row of its own: the original's cell and
\* an empty cell under every subfolder, before the first model's row
OrgCell_own_row ==
    /\ pc = "org_cell"
    /\ LET fname == org_files[fi]
           kind  == orgEntries[fname]
       IN  /\ io' = [io EXCEPT !.stats = @ + 1,
                               !.reads = @ + (IF can_open(kind) THEN 1 ELSE 0)]
           /\ IF exists(kind) /\ ~can_open(kind)
              THEN /\ pc' = "raised" /\ exitCode' = 1
                   /\ UNCHANGED <<parts, mi, si>>
              ELSE /\ parts' = append_cells(parts,
                                  <<org_cell(OrgDir, fname, kind)>>
                                  \o [i \in 1..Len(subfolders) |-> placeholder_cell])
                   /\ pc' = IF models # <<>> THEN "first_row" ELSE "no_model"
                   /\ mi' = 1 /\ si' = 1
                   /\ exitCode' = exitCode
    /\ UNCHANGED <<inputVars, outVars, fi, subfolders, orgEntries, fs, org_files>>

\* lines 125-134, 145: the original's cell, then the branch on `models`
OrgCell ==
    /\ pc = "org_cell"
    /\ LET fname == org_files[fi]
           kind  == orgEntries[fname]
       IN  /\ io' = [io EXCEPT !.stats = @ + 1,
                               !.reads = @ + (IF can_open(kind) THEN 1 ELSE 0)]
           /\ IF exists(kind) /\ ~can_open(kind)
              THEN /\ pc' = "raised" /\ exitCode' = 1
                   /\ UNCHANGED <<parts, mi, si>>
              ELSE /\ parts' = append_cells(parts, <<org_cell(OrgDir, fname, kind)>>)
                   /\ pc' = IF models # <<>> THEN "first_row" ELSE "no_model"
                   /\ mi' = 1 /\ si' = 1
                   /\ exitCode' = exitCode
    /\ UNCHANGED <<inputVars, outVars, fi, subfolders, orgEntries, fs, org_files>>

NonFiles(f) == Cardinality({p \in DOMAIN f : f[p] # "file"})

\* what a stat of path p finds: the kind already seen there, else any kind
Found(p, k) ==
    IF p \in DOMAIN fs THEN k = fs[p]
    ELSE k = "file" \/ NonFiles(fs) < MaxMissing

\* lines 135-144: one iteration of the loop over subfolders for models[0]
FirstModelCell ==
    /\ pc = "first_row"
    /\ LET m0     == models[1]
           label0 == path_name(m0)
           sub    == subfolders[si]
           fname  == org_files[fi]
           p      == join(m0, <<sub, fname>>)
       IN  \E kind \in Kinds :
             /\ Found(p, kind)
             /\ fs' = (p :> kind) @@ fs
             /\ io' = [io EXCEPT !.stats = @ + 1,
                                 !.reads = @ + (IF can_open(kind) THEN 1 ELSE 0)]
             /\ IF exists(kind) /\ ~can_open(kind)
                THEN /\ pc' = "raised" /\ exitCode' = 1
                     /\ UNCHANGED <<parts, mi, si>>
                ELSE /\ parts' = append_cells(parts,
                                   <<first_model_cell(m0, label0, sub, fname, kind)>>)
                     /\ exitCode' = exitCode
                     /\ IF si < Len(subfolders)
                        THEN si' = si + 1 /\ mi' = mi /\ pc' = pc
                        ELSE /\ si' = si
                             /\ IF Len(models) > 1
                                THEN mi' = 2 /\ pc' = "row_start"
                                ELSE mi' = mi /\ pc' = "section_end"
    /\ UNCHANGED <<inputVars, outVars, fi, subfolders, orgEntries, org_files>>

\* lines 146-148
NoModelRow ==
    /\ pc = "no_model"
    /\ parts' = append_cells(parts, no_model_row(subfolders))
    /\ pc' = "section_end"
    /\ UNCHANGED <<inputVars, outVars, loopVars, subfolders, orgEntries, fs,
                   org_files, io, exitCode>>

\* RowStart that leaves out the empty cell under the original
RowStart_no_placeholder ==
    /\ pc = "row_start"
    /\ si' = 1
    /\ pc' = "other_rows"
    /\ UNCHANGED <<inputVars, outVars, fi, mi, subfolders, orgEntries, fs,
                   org_files, parts, io, exitCode>>

\* lines 151-152: the next model of models[1:], and the empty cell under the original
RowStart ==
    /\ pc = "row_start"
    /\ parts' = append_cells(parts, <<placeholder_cell>>)
    /\ si' = 1
    /\ pc' = "other_rows"
    /\ UNCHANGED <<inputVars, outVars, fi, mi, subfolders, orgEntries, fs,
                   org_files, io, exitCode>>

\* lines 153-161: one iteration of the loop over subfolders for models[mi]
OtherModelCell ==
    /\ pc = "other_rows"
    /\ LET m     == models[mi]
           label == path_name(m)
           sub   == subfolders[si]
           fname == org_files[fi]
           p     == join(m, <<sub, fname>>)
       IN  \E kind \in Kinds :
             /\ Found(p, kind)
             /\ fs' = (p :> kind) @@ fs
             /\ io' = [io EXCEPT !.stats = @ + 1,
                                 !.reads = @ + (IF can_open(kind) THEN 1 ELSE 0)]
             /\ IF exists(kind) /\ ~can_open(kind)
                THEN /\ pc' = "raised" /\ exitCode' = 1
                     /\ UNCHANGED <<parts, mi, si>>
                ELSE /\ parts' = append_cells(parts,
                                   <<other_model_cell(m, label, sub, fname, kind)>>)
                     /\ exitCode' = exitCode
                     /\ IF si < Len(subfolders)
                        THEN si' = si + 1 /\ mi' = mi /\ pc' = pc
                        ELSE /\ si' = si
                             /\ IF mi < Len(models)
                                THEN mi' = mi + 1 /\ pc' = "row_start"
                                ELSE mi' = mi /\ pc' = "section_end"
    /\ UNCHANGED <<inputVars, outVars, fi, subfolders, orgEntries, org_files>>

\* SectionEnd that flushes the document so far to --out after every section
SectionEnd_flush ==
    /\ pc = "section_end"
    /\ parts' = [parts EXCEPT ![Len(parts)].closed = TRUE]
    /\ fi' = fi + 1
    /\ pc' = "section"
    /\ outFile' = [exists |-> TRUE, doc |-> parts']
    /\ writes' = writes + 1
    /\ UNCHANGED <<inputVars, html_str, mkdirs, printed, mi, si, subfolders,
                   orgEntries, fs, org_files, io, exitCode>>

\* lines 163-164, and the step of the loop over org_files
SectionEnd ==
    /\ pc = "section_end"
    /\ parts' = [parts EXCEPT ![Len(parts)].closed = TRUE]
    /\ fi' = fi + 1
    /\ pc' = "section"
    /\ UNCHANGED <<inputVars, outVars, mi, si, subfolders, orgEntries, fs,
                   org_files, io, exitCode>>

\* lines 166-167 and 187: build_html returns the joined document
ReturnHtml ==
    /\ pc = "section"
    /\ fi > Len(org_files)
    /\ html_str' = [set |-> TRUE, doc |-> parts]
    /\ pc' = IF entry = "main" THEN "mkdir" ELSE "returned"
    /\ UNCHANGED <<inputVars, outFile, mkdirs, writes, printed, loopVars,
                   subfolders, orgEntries, fs, org_files, parts, io, exitCode>>

\* line 188
MkdirParent ==
    /\ pc = "mkdir"
    /\ mkdirs' = mkdirs + 1
    /\ pc' = "write"
    /\ UNCHANGED <<inputVars, html_str, outFile, writes, printed, loopVars,
                   subfolders, orgEntries, fs, org_files, parts, io, exitCode>>

\* line 189
WriteText ==
    /\ pc = "write"
    /\ outFile' = [exists |-> TRUE, doc |-> html_str.doc]
    /\ writes' = writes + 1
    /\ pc' = "print"
    /\ UNCHANGED <<inputVars, html_str, mkdirs, printed, loopVars,
                   subfolders, orgEntries, fs, org_files, parts, io, exitCode>>

\* line 190, and the normal end of the process
PrintOk ==
    /\ pc = "print"
    /\ printed' = printed + 1
    /\ exitCode' = 0
    /\ pc' = "done"
    /\ UNCHANGED <<inputVars, html_str, outFile, mkdirs, writes, loopVars,
                   subfolders, orgEntries, fs, org_files, parts, io>>

Next ==
    \/ ParseArgs \/ CheckOrg \/ CheckModel \/ ResolveFolders
    \/ ListOrg \/ SectionStart \/ RemoveOrgFile \/ OrgCell
    \/ FirstModelCell \/ NoModelRow \/ RowStart \/ OtherModelCell
    \/ SectionEnd \/ ReturnHtml
    \/ MkdirParent \/ WriteText \/ PrintOk

Spec == Init /\ [][Next]_vars

(***************************************************************************)
(* SpecList: list_org_files on a directory.                                *)
(***************************************************************************)
InitList ==
    /\ entry = "list_org_files"
    /\ pc = "list_call"
    /\ orgKind = "dir"
    /\ models = <<>> /\ modelKinds = <<>> /\ folders = <<>> /\ subfolders = <<>>
    /\ orgEntries \in Dirs(ListNames)
    /\ Fresh
    /\ fileBytes = <<>> /\ fileName = <<>> /\ uri = <<>>

\* lines 52-55
ListCall ==
    /\ pc = "list_call"
    /\ \E listing \in IterOrders(orgEntries) :
          org_files' = list_org_files(listing)
    /\ io' = [io EXCEPT !.lists = @ + 1]
    /\ pc' = "listed"
    /\ UNCHANGED <<inputVars, outVars, loopVars, subfolders, orgEntries, fs,
                   parts, exitCode>>

NextList == ListCall

SpecList == InitList /\ [][NextList]_vars

(***************************************************************************)
(* SpecB64: encode_data_uri on a file.                                     *)
(***************************************************************************)
InitB64 ==
    /\ entry = "encode_data_uri"
    /\ pc = "encode_call"
    /\ orgKind = "dir"
    /\ models = <<>> /\ modelKinds = <<>> /\ folders = <<>> /\ subfolders = <<>>
    /\ orgEntries = [n \in BuildNames |-> "absent"]
    /\ Fresh
    /\ fileBytes \in ByteSeqs(MaxLen)
    /\ fileName \in BuildNames
    /\ uri = <<>>

\* lines 45-49
EncodeCall ==
    /\ pc = "encode_call"
    /\ uri' = encode_data_uri(fileName, fileBytes)
    /\ io' = [io EXCEPT !.reads = @ + 1]
    /\ pc' = "encoded"
    /\ UNCHANGED <<entry, orgKind, modelKinds, models, folders, fileBytes, fileName,
                   outVars, loopVars, subfolders, orgEntries, fs, org_files,
                   parts, exitCode>>

NextB64 == EncodeCall

SpecB64 == InitB64 /\ [][NextB64]_vars
(***************************************************************************)
(* Reading the document.                                                   *)
(***************************************************************************)
NCols == cols(subfolders)
NRows(sec) == Len(sec.grid) \div NCols
Row(sec, r) == SubSeq(sec.grid, (r - 1) * NCols + 1, r * NCols)

IsImg(cell) == cell.content[1] = "img"
IsMarker(cell, text) == cell.content[1] = "missing" /\ cell.content[2] = text

\* the cells of the document rendered for path p: those labelled with p's
\* model and subfolder in the section of p's file name
CellsOf(p) ==
    LET n == Len(p)
    IN  { c \in UNION { {parts[i].grid[j] : j \in 1..Len(parts[i].grid)} :
                          i \in {k \in 1..Len(parts) : parts[k].fname = p[n]} } :
            c.label = <<p[n - 2], p[n - 1]>> }

ImgOf(p) == \E c \in CellsOf(p) : IsImg(c) /\ c.content[2] = p
MissingOf(p) == \E c \in CellsOf(p) : IsMarker(c, "MISSING")

Terminated == pc \in {"exit", "raised", "returned", "done"}
Returned == html_str.set

(***************************************************************************)
(* C1: in main, if --org or any --models path is not an existing           *)
(* directory, the run ends with a non-zero exit before any processing: no  *)
(* directory is listed, no file is read, the parent of --out is not        *)
(* created and nothing is written; the run is either still validating (at  *)
(* or before the invalid path) or has exited non-zero.                     *)
(***************************************************************************)
InvalidArgs ==
    /\ entry = "main"
    /\ orgKind # "dir" \/ \E i \in 1..Len(models) : modelKinds[i] # "dir"

\* C1: invalid --org or --models path => non-zero exit and no processing at all
C1_FailFast ==
    InvalidArgs =>
        /\ pc \in {"parse", "check_org", "check_models", "exit"}
        /\ pc = "check_models" =>
              /\ mi <= Len(models)
              /\ \A i \in 1..(mi - 1) : modelKinds[i] = "dir"
        /\ pc = "exit" => exitCode \in {1, 2}
        /\ pc # "exit" => exitCode = -1
        /\ io.lists = 0 /\ io.reads = 0
        /\ mkdirs = 0 /\ writes = 0 /\ ~outFile.exists /\ printed = 0
        /\ ~html_str.set /\ parts = <<>> /\ org_files = <<>>

\* the run has exited on the second model, the original and the first model valid
C1_Witness ==
    /\ entry = "main" /\ pc = "exit" /\ exitCode = 1
    /\ orgKind = "dir" /\ Len(models) >= 2
    /\ modelKinds[1] = "dir" /\ modelKinds[2] # "dir"
    /\ mi = 2

(***************************************************************************)
(* C2: list_org_files returns exactly the names of the regular files whose *)
(* name ends, case-insensitively, in a recognized extension after a        *)
(* non-empty stem; each once, in ascending order; no other entry.          *)
(***************************************************************************)
EndsWith(name, ext) ==
    /\ Len(name) > Len(ext)
    /\ lower(SubSeq(name, Len(name) - Len(ext) + 1, Len(name))) = ext

Recognized(name) == \E ext \in IMAGE_EXTS : EndsWith(name, ext)

ImageFiles(dir) == {n \in DOMAIN dir : dir[n] = "file" /\ Recognized(n)}

\* C2: the result is exactly the recognized regular files, each once, ascending
C2_Discovery ==
    (entry = "list_org_files" /\ pc = "listed") =>
        /\ {org_files[i] : i \in 1..Len(org_files)} = ImageFiles(orgEntries)
        /\ Len(org_files) = Cardinality(ImageFiles(orgEntries))
        /\ \A i \in 1..(Len(org_files) - 1) : str_lt(org_files[i], org_files[i + 1])

\* two images (one with an upper-case extension) listed, a non-image entry left out
C2_Witness ==
    /\ entry = "list_org_files" /\ pc = "listed"
    /\ Len(org_files) = 2
    /\ \E i \in 1..2 : suffix(org_files[i]) = <<".", "J", "P", "G">>
    /\ Cardinality(Present(orgEntries)) = 3
    /\ \E n \in Present(orgEntries) : Recognized(n) /\ orgEntries[n] = "dir"

(***************************************************************************)
(* C3: for every reference file name, model and subfolder, the cell of     *)
(* model/subfolder/name holds an image tag if and only if that path exists *)
(* when it is rendered, and a "MISSING" marker (and no image) otherwise.   *)
(***************************************************************************)
C3_CellPerExistence ==
    \A p \in DOMAIN fs :
        /\ exists(fs[p]) <=> ImgOf(p)
        /\ ~exists(fs[p]) <=> MissingOf(p)

(***************************************************************************)
(* C4: when the original of a file name is missing at render time its      *)
(* cell is "Original MISSING" with no image, and every model cell of that  *)
(* file name renders by the existence of its own path.                     *)
(***************************************************************************)
OrgCellOf(sec) == sec.grid[NCols + 1]

\* C4: original missing => "Original MISSING", model cells by their own paths
C4_OrgMissingIndependent ==
    \A i \in 1..Len(parts) :
        (Len(parts[i].grid) > NCols /\ orgEntries[parts[i].fname] = "absent") =>
            /\ IsMarker(OrgCellOf(parts[i]), "Original MISSING")
            /\ \A p \in DOMAIN fs :
                  p[Len(p)] = parts[i].fname =>
                      /\ exists(fs[p]) <=> ImgOf(p)
                      /\ ~exists(fs[p]) <=> MissingOf(p)
(***************************************************************************)
(* C5: with M >= 1 models and S subfolders, every section of the document  *)
(* has a grid of (1 + S) * (1 + M) cells in rows of 1 + S: the header row  *)
(* and M model rows, each with S model cells after its first column; in    *)
(* every model row after the first the first-column cell is an empty       *)
(* placeholder (no label, no image).  A returned document has one such     *)
(* section per reference file name.                                        *)
(***************************************************************************)
IsModelCell(cell) == cell.cls = "cell" /\ Len(cell.label) = 2

GridShape(sec) ==
    LET S == Len(subfolders)
        M == Len(models)
    IN  /\ Len(sec.grid) = (1 + S) * (1 + M)
        /\ NCols = 1 + S
        /\ Len(sec.grid) % NCols = 0
        /\ NRows(sec) - 1 = M
        /\ \A r \in 2..NRows(sec) :
              /\ Len(Row(sec, r)) = 1 + S
              /\ \A c \in 2..NCols : IsModelCell(Row(sec, r)[c])
              /\ ~IsModelCell(Row(sec, r)[1])
        /\ \A r \in 3..NRows(sec) :
              /\ Row(sec, r)[1].cls = "cell placeholder"
              /\ Row(sec, r)[1].label = <<>>
              /\ Row(sec, r)[1].content = NoContent

\* C5: (1 + S) * (1 + M) cells in rows of 1 + S, placeholders under the original
C5_GridCells ==
    (entry \in {"main", "build_html"} /\ Len(models) >= 1) =>
        /\ \A i \in 1..Len(parts) : parts[i].closed => GridShape(parts[i])
        /\ Returned =>
              /\ Len(html_str.doc) = Len(org_files)
              /\ \A i \in 1..Len(html_str.doc) :
                    html_str.doc[i].closed /\ GridShape(html_str.doc[i])

\* a returned document for two models and the three default subfolders:
\* twelve cells in the section, an empty placeholder under the original
C5_Witness ==
    /\ Returned /\ Len(models) = 2 /\ subfolders = DEFAULT_SUBFOLDERS
    /\ Len(html_str.doc) >= 1
    /\ Len(html_str.doc[1].grid) = 12
    /\ html_str.doc[1].grid[9] = placeholder_cell

(***************************************************************************)
(* C6 as stated: after the header row a section has one row for the        *)
(* original image and, separate from it, one row per model: 1 + M rows.    *)
(***************************************************************************)
C6_OwnRowForOriginal ==
    \A i \in 1..Len(parts) :
        parts[i].closed =>
            /\ NRows(parts[i]) - 1 = 1 + Len(models)
            /\ \A c \in 2..NCols : ~IsModelCell(Row(parts[i], 2)[c])

(***************************************************************************)
(* C6 amended: a section is a header row (a blank cell, then the subfolder *)
(* names) followed by one row per model - M rows for M >= 1 models, one    *)
(* row for none; the original's cell is the first cell of the first of     *)
(* these rows, which for M >= 1 also holds the first model's cells.        *)
(***************************************************************************)
IsOrgCell(cell) ==
    \/ cell.label = <<"org_img">> /\ IsImg(cell)
    \/ IsMarker(cell, "Original MISSING")

SectionRows(sec) ==
    LET M == Len(models)
    IN  /\ Len(sec.grid) % NCols = 0
        /\ Row(sec, 1) = <<hdr(<<>>)>> \o [c \in 1..Len(subfolders) |-> hdr(<<subfolders[c]>>)]
        /\ NRows(sec) - 1 = IF M >= 1 THEN M ELSE 1
        /\ IsOrgCell(Row(sec, 2)[1])
        /\ \A j \in 1..Len(sec.grid) : IsOrgCell(sec.grid[j]) => j = NCols + 1
        /\ M >= 1 => \A c \in 2..NCols :
               /\ IsModelCell(Row(sec, 2)[c])
               /\ Row(sec, 2)[c].label[1] = path_name(models[1])

\* C6 (amended): header row, then one row per model, the original in the first
C6_RowPerModel ==
    entry \in {"main", "build_html"} =>
        /\ \A i \in 1..Len(parts) : parts[i].closed => SectionRows(parts[i])
        /\ Returned => Len(html_str.doc) = Len(org_files)

\* a closed section for two models: two rows after the header, the original
\* and the first model's cells in the same row
C6_Witness ==
    /\ Len(models) = 2 /\ Len(parts) >= 1 /\ parts[1].closed
    /\ NRows(parts[1]) = 3
    /\ IsOrgCell(Row(parts[1], 2)[1]) /\ IsModelCell(Row(parts[1], 2)[2])

(***************************************************************************)
(* C7: with zero models every reference file name still gets one row after *)
(* the header: the original's cell, then one "No model" placeholder per    *)
(* subfolder; the section holds no model image and no "MISSING" marker.    *)
(***************************************************************************)
NoModelSection(sec) ==
    /\ Len(sec.grid) = 2 * NCols
    /\ IsOrgCell(Row(sec, 2)[1])
    /\ \A c \in 2..NCols :
          /\ IsMarker(Row(sec, 2)[c], "No model")
          /\ ~IsImg(Row(sec, 2)[c])
    /\ \A j \in 1..Len(sec.grid) :
          /\ ~IsMarker(sec.grid[j], "MISSING")
          /\ IsImg(sec.grid[j]) => j = NCols + 1

\* C7: zero models => one row of the original's cell and "No model" placeholders
C7_NoModelRow ==
    (entry = "build_html" /\ models = <<>>) =>
        /\ \A i \in 1..Len(parts) : parts[i].closed => NoModelSection(parts[i])
        /\ Returned =>
              /\ Len(html_str.doc) = Len(org_files)
              /\ \A i \in 1..Len(html_str.doc) :
                    /\ html_str.doc[i].closed
                    /\ html_str.doc[i].fname = org_files[i]
        /\ fs = <<>>

\* build_html returned two sections for no model, one original gone missing
C7_Witness ==
    /\ entry = "build_html" /\ models = <<>> /\ pc = "returned"
    /\ Len(html_str.doc) = 2 /\ Len(subfolders) >= 2
    /\ IsMarker(html_str.doc[1].grid[NCols + 1], "Original MISSING")
    /\ IsMarker(html_str.doc[2].grid[2 * NCols], "No model")
(***************************************************************************)
(* C8: a run of main writes --out at most once, exactly once when it       *)
(* succeeds; the write comes after build_html has returned the complete    *)
(* document, so every listing, existence check and read precedes it; what  *)
(* is on disk is always nothing or the complete document; the              *)
(* confirmation line is printed once, after the write.                     *)
(***************************************************************************)
Complete(doc) ==
    /\ Len(doc) = Len(org_files)
    /\ \A i \in 1..Len(doc) :
          /\ doc[i].closed
          /\ doc[i].fname = org_files[i]
          /\ Len(doc[i].grid) = NCols * (1 + Len(models))

WriteOnce ==
    /\ writes \in {0, 1} /\ printed \in {0, 1} /\ mkdirs \in {0, 1}
    /\ outFile.exists <=> writes = 1
    /\ outFile.exists =>
          /\ html_str.set
          /\ outFile.doc = html_str.doc
          /\ Complete(outFile.doc)
          /\ mkdirs = 1
    /\ printed = 1 => writes = 1
    /\ pc = "done" => writes = 1 /\ printed = 1 /\ exitCode = 0
    /\ exitCode = 0 => pc = "done"

C8_SingleWriteAfterBuild ==
    entry = "main" =>
        /\ WriteOnce /\ WriteOnce'
        /\ (io' # io \/ parts' # parts) => (writes = 0 /\ writes' = 0)
        /\ writes' # writes => (html_str.set /\ html_str' = html_str /\ printed = 0)

\* C8: one write, after the complete document is built; one line printed after it
C8_Theorem == [][C8_SingleWriteAfterBuild]_vars

\* main has finished: one write of a document with a section, one line printed
C8_Witness ==
    /\ entry = "main" /\ pc = "done"
    /\ writes = 1 /\ printed = 1
    /\ Len(outFile.doc) = 2 /\ io.reads >= 2

(***************************************************************************)
(* C9: the payload after "base64," in the URI encode_data_uri returns      *)
(* decodes (RFC 4648) to exactly the bytes of the file, for every byte     *)
(* sequence, the empty one and lengths not divisible by 3 included.        *)
(***************************************************************************)
b64val(c) == CHOOSE v \in 0..63 : b64char(v) = c

\* base64.b64decode of a padded payload
RECURSIVE b64decode(_)
b64decode(t) ==
    IF Len(t) < 4 THEN <<>>
    ELSE LET a == b64val(t[1])
             b == b64val(t[2])
             rest == b64decode(SubSeq(t, 5, Len(t)))
         IN  IF t[3] = "=" THEN <<a * 4 + b \div 16>> \o rest
             ELSE LET c == b64val(t[3])
                  IN  IF t[4] = "="
                      THEN <<a * 4 + b \div 16, (b % 16) * 16 + c \div 4>> \o rest
                      ELSE <<a * 4 + b \div 16, (b % 16) * 16 + c \div 4,
                             (c % 4) * 64 + b64val(t[4])>> \o rest

Payload(u) ==
    LET k == CHOOSE i \in 1..Len(u) :
                 u[i] = ";base64," /\ \A j \in 1..(i - 1) : u[j] # ";base64,"
    IN  SubSeq(u, k + 1, Len(u))

\* C9: decoding the payload of the data URI gives back the bytes of the file
C9_RoundTrip ==
    (entry = "encode_data_uri" /\ pc = "encoded") =>
        /\ Len(uri) >= 3 /\ uri[1] = "data:" /\ uri[3] = ";base64,"
        /\ Len(Payload(uri)) % 4 = 0
        /\ b64decode(Payload(uri)) = fileBytes

\* a file of two bytes, a length not divisible by 3, has been encoded
C9_Witness ==
    /\ entry = "encode_data_uri" /\ pc = "encoded"
    /\ Len(fileBytes) = 2 /\ fileBytes[2] = 251
    /\ Len(Payload(uri)) = 4 /\ Payload(uri)[4] = "="

(***************************************************************************)
(* C10: the document keeps the input order.  Sections follow the sorted    *)
(* reference set, one per file name; the model rows follow the order in    *)
(* which the models were given, the first model in the row of the          *)
(* original's cell; in the header row and in every model row the           *)
(* subfolder columns follow the configured order.                          *)
(***************************************************************************)
SectionOrder(sec) ==
    /\ \A c \in 1..Len(subfolders) : Row(sec, 1)[c + 1] = hdr(<<subfolders[c]>>)
    /\ \A r \in 1..Len(models) : \A c \in 1..Len(subfolders) :
          /\ Row(sec, r + 1)[c + 1].label = <<path_name(models[r]), subfolders[c]>>
          /\ IsImg(Row(sec, r + 1)[c + 1]) =>
                Row(sec, r + 1)[c + 1].content[2] =
                    join(models[r], <<subfolders[c], sec.fname>>)
    /\ Len(models) >= 1 => IsOrgCell(Row(sec, 2)[1])

\* C10: sections, model rows and subfolder columns keep the input order
C10_InputOrder ==
    entry \in {"main", "build_html"} =>
        /\ Len(parts) <= Len(org_files)
        /\ \A i \in 1..Len(parts) :
              /\ parts[i].fname = org_files[i]
              /\ parts[i].closed => SectionOrder(parts[i])
        /\ \A i \in 1..(Len(org_files) - 1) : str_lt(org_files[i], org_files[i + 1])
        /\ Returned =>
              /\ html_str.doc = parts
              /\ Len(parts) = Len(org_files)
              /\ \A i \in 1..Len(parts) : parts[i].closed

\* a returned document with two sections, two models and two subfolders
C10_Witness ==
    /\ Returned /\ Len(html_str.doc) = 2
    /\ Len(models) = 2 /\ Len(subfolders) = 2
    /\ html_str.doc[2].grid[NCols + 2].label = <<"mB", "img_bb">>
    /\ html_str.doc[2].grid[2 * NCols + 3].label = <<"mA", "est_center_map">>
====
